---- MODULE Spec2Model ----
(***************************************************************************)
(* LengthLimitedField<MIN, MAX> (src/lib.rs): a string whose byte length   *)
(* is validated against two const-generic bounds at construction and at    *)
(* deserialization, and serialized as a bare string scalar.                *)
(*                                                                         *)
(* A &str is a sequence of characters; each character occupies one or more *)
(* bytes of UTF-8, and str::len counts bytes.  Formatted text is a         *)
(* sequence of pieces: the literal parts of a format string, and one       *)
(* decimal digit per piece for a formatted usize.                          *)
(***************************************************************************)
EXTENDS Integers, Sequences, FiniteSets, TLC

\* ---- bounds of the model ------------------------------------------------
MaxChars == 2      \* strings of at most this many characters
MaxBound == 3      \* MIN and MAX range over 0..MaxBound

\* ---- strings --------------------------------------------------------------
\* "a" is a one-byte character, "U+00E9" a two-byte one.
Chars == {"a", "U+00E9"}

Utf8Width(c) == IF c = "a" THEN 1 ELSE 2

Strings == UNION {[1..n -> Chars] : n \in 0..MaxChars}

\* value.len(): the length of a &str in bytes
RECURSIVE str_len(_)
str_len(value) ==
    IF value = <<>> THEN 0 ELSE Utf8Width(Head(value)) + str_len(Tail(value))

\* ---- formatting -----------------------------------------------------------
DigitChars == <<"0", "1", "2", "3", "4", "5", "6", "7", "8", "9">>

\* {} and {:?} of a usize: its decimal digits, most significant first
RECURSIVE fmt_usize(_)
fmt_usize(n) ==
    IF n < 10 THEN <<DigitChars[n + 1]>>
    ELSE fmt_usize(n \div 10) \o <<DigitChars[(n % 10) + 1]>>

\* ---- Result / Option ------------------------------------------------------
Ok(v) == [ok |-> TRUE, value |-> v]
Err(e) == [ok |-> FALSE, err |-> e]
None == [some |-> FALSE]
Some(v) == [some |-> TRUE, value |-> v]

\* ---- LengthLimitedFieldError ---------------------------------------------
TooLong(len, max) == [tag |-> "TooLong", len |-> len, max |-> max]
TooShort(len, min) == [tag |-> "TooShort", len |-> len, min |-> min]

\* #[error("Length of value {len:?} longer than {max:?}")] and
\* #[error("Length of value {len:?} shorter than {min:?}")]
Display(error) ==
    IF error.tag = "TooLong"
    THEN <<"Length of value ">> \o fmt_usize(error.len)
            \o <<" longer than ">> \o fmt_usize(error.max)
    ELSE <<"Length of value ">> \o fmt_usize(error.len)
            \o <<" shorter than ">> \o fmt_usize(error.min)

\* #[derive(Debug)] on the error enum
Debug(error) ==
    IF error.tag = "TooLong"
    THEN <<"TooLong { len: ">> \o fmt_usize(error.len)
            \o <<", max: ">> \o fmt_usize(error.max) \o <<" }">>
    ELSE <<"TooShort { len: ">> \o fmt_usize(error.len)
            \o <<", min: ">> \o fmt_usize(error.min) \o <<" }">>

\* ---- LengthLimitedField ---------------------------------------------------
LengthLimitedField(inner) == [inner |-> inner]

\* -- variants of try_from with a plausible slip each
try_from_off_by_one(MIN, MAX, value) ==
    LET len == str_len(value) IN
    IF len >= MAX THEN Err(TooLong(len, MAX))
    ELSE IF len < MIN THEN Err(TooShort(len, MIN))
    ELSE Ok(LengthLimitedField(value))

try_from_wrong_bound(MIN, MAX, value) ==
    LET len == str_len(value) IN
    IF len > MAX THEN Err(TooLong(len, MIN))
    ELSE IF len < MIN THEN Err(TooShort(len, MIN))
    ELSE Ok(LengthLimitedField(value))

try_from_short_len_lost(MIN, MAX, value) ==
    LET len == str_len(value) IN
    IF len > MAX THEN Err(TooLong(len, MAX))
    ELSE IF len < MIN THEN Err(TooShort(MIN, MIN))
    ELSE Ok(LengthLimitedField(value))

try_from_no_lower_check(MIN, MAX, value) ==
    LET len == str_len(value) IN
    IF len > MAX THEN Err(TooLong(len, MAX))
    ELSE Ok(LengthLimitedField(value))

try_from_short_first(MIN, MAX, value) ==
    LET len == str_len(value) IN
    IF len < MIN THEN Err(TooShort(len, MIN))
    ELSE IF len > MAX THEN Err(TooLong(len, MAX))
    ELSE Ok(LengthLimitedField(value))

\* TryFrom<&str>::try_from: the match on value.len(), first arm first
try_from(MIN, MAX, value) ==
    LET len == str_len(value) IN
    IF len > MAX THEN Err(TooLong(len, MAX))
    ELSE IF len < MIN THEN Err(TooShort(len, MIN))
    ELSE Ok(LengthLimitedField(value))

\* LengthLimitedField::new
new(MIN, MAX, value) == try_from(MIN, MAX, value)

\* Deref::deref
deref(self) == self.inner

\* ---- scalars of the external representation ------------------------------
Str(v) == [kind |-> "str", val |-> v]

NonStrings ==
    {[kind |-> "u64", val |-> 7], [kind |-> "bool", val |-> TRUE],
     [kind |-> "unit", val |-> 0]}

Scalars == {Str(s) : s \in Strings} \cup NonStrings

\* ---- Serialize ------------------------------------------------------------
\* The serializer is the framework's; its serialize_str may fail for reasons
\* of its own (an output sink), which the component hands on unchanged.
Serializers == {"infallible", "failing"}

serialize_str(serializer, v) ==
    IF serializer = "infallible" THEN Ok(Str(v))
    ELSE Err([tag |-> "SerializerError"])

serialize_as_bytes(self, serializer) ==
    IF serializer = "infallible" THEN Ok([kind |-> "bytes", val |-> self.inner])
    ELSE Err([tag |-> "SerializerError"])

serialize_trimmed(self, serializer) ==
    serialize_str(serializer,
                  IF self.inner = <<>> THEN <<>> ELSE Tail(self.inner))

\* Serialize::serialize
serialize(self, serializer) == serialize_str(serializer, self.inner)

\* ---- Deserialize ----------------------------------------------------------
\* Visitor::expecting
expecting(MIN, MAX) ==
    <<"a string with length less than ">> \o fmt_usize(MIN)
        \o <<" and greater than ">> \o fmt_usize(MAX)

\* serde::de::Error::custom and ::invalid_type
Custom(msg) == [tag |-> "Custom", msg |-> msg]
InvalidType(unexp, exp) == [tag |-> "InvalidType", unexp |-> unexp, exp |-> exp]

visit_str_unchecked(MIN, MAX, v) == Ok(LengthLimitedField(v))

visit_str_debug(MIN, MAX, v) ==
    LET r == try_from(MIN, MAX, v) IN
    IF r.ok THEN r ELSE Err(Custom(Debug(r.err)))

\* Visitor::visit_str
visit_str(MIN, MAX, v) ==
    LET r == try_from(MIN, MAX, v) IN
    IF r.ok THEN r ELSE Err(Custom(Display(r.err)))

\* Deserialize::deserialize: deserializer.deserialize_string(visitor).  A
\* string scalar reaches visit_str; the visitor overrides no other visit_*
\* method, so any other scalar gets the default invalid_type error, which
\* carries the visitor's expecting text.
deserialize(MIN, MAX, input) ==
    IF input.kind = "str" THEN visit_str(MIN, MAX, input.val)
    ELSE Err(InvalidType(input.kind, expecting(MIN, MAX)))

\* ---- state ----------------------------------------------------------------
VARIABLES
    min, max,   \* the const generics MIN and MAX of the type in use
    field,      \* the instance the caller holds, if any
    born,       \* the inner value of that instance when it was created
    wire,       \* the scalar last emitted by serialize, if any
    encoded,    \* the instance that scalar was emitted for
    last        \* the last operation: its name, input and result

vars == <<min, max, field, born, wire, encoded, last>>

Init ==
    /\ min \in 0..MaxBound
    /\ max \in 0..MaxBound
    /\ field = None
    /\ born = None
    /\ wire = None
    /\ encoded = None
    /\ last = [op |-> "none"]

\* a successful result replaces the instance held; a failure leaves it
Keep(r) ==
    /\ field' = IF r.ok THEN Some(r.value) ELSE field
    /\ born' = IF r.ok THEN Some(r.value.inner) ELSE born

New ==
    \E s \in Strings :
        LET r == new(min, max, s) IN
        /\ last' = [op |-> "new", input |-> Str(s), result |-> r]
        /\ Keep(r)
        /\ UNCHANGED <<min, max, wire, encoded>>

Deserialize ==
    \E x \in Scalars :
        LET r == deserialize(min, max, x) IN
        /\ last' = [op |-> "deserialize", input |-> x, result |-> r]
        /\ Keep(r)
        /\ UNCHANGED <<min, max, wire, encoded>>

Deref ==
    /\ field.some
    /\ last' = [op |-> "deref", result |-> deref(field.value)]
    /\ UNCHANGED <<min, max, field, born, wire, encoded>>

Serialize ==
    /\ field.some
    /\ \E S \in Serializers :
        LET r == serialize(field.value, S) IN
        /\ last' = [op |-> "serialize", serializer |-> S, result |-> r]
        /\ wire' = IF r.ok THEN Some(r.value) ELSE wire
        /\ encoded' = IF r.ok THEN field ELSE encoded
    /\ UNCHANGED <<min, max, field, born>>

\* decode what serialize emitted, into the same type
DeserializeWire ==
    /\ wire.some
    /\ LET r == deserialize(min, max, wire.value) IN
        /\ last' = [op |-> "roundtrip", input |-> wire.value, result |-> r]
        /\ Keep(r)
    /\ UNCHANGED <<min, max, wire, encoded>>

Next == New \/ Deserialize \/ Deref \/ Serialize \/ DeserializeWire

Spec == Init /\ [][Next]_vars

\* ---- properties -----------------------------------------------------------
InBounds(s) == min <= str_len(s) /\ str_len(s) <= max

IsNew == last.op = "new"
IsDecode == last.op = "deserialize" /\ last.input.kind = "str"

\* C1: Construct succeeds exactly when MIN <= length(s) <= MAX, and the
\* instance it returns holds s itself.
C1_ConstructIffInBounds ==
    IsNew =>
        /\ last.result.ok <=> InBounds(last.input.val)
        /\ last.result.ok => last.result.value.inner = last.input.val

\* a two-byte character brings the string exactly to MAX, and it is accepted
C1_Witness ==
    /\ IsNew /\ last.result.ok
    /\ last.input.val # <<>>
    /\ str_len(last.input.val) = max
    /\ str_len(last.input.val) > Len(last.input.val)

\* C2: a string longer than MAX is rejected with TooLong carrying its length
\* and MAX, never with TooShort.
C2_TooLong ==
    (IsNew /\ str_len(last.input.val) > max) =>
        /\ ~last.result.ok
        /\ last.result.err = TooLong(str_len(last.input.val), max)
        /\ last.result.err.tag # "TooShort"

C2_Witness ==
    /\ IsNew /\ str_len(last.input.val) > max
    /\ ~last.result.ok /\ last.result.err.tag = "TooLong"
    /\ min # max

\* C3 as stated: a string shorter than MIN is rejected with TooShort carrying
\* its length and MIN, never with TooLong, whatever the bounds.
C3_Original ==
    (IsNew /\ str_len(last.input.val) < min) =>
        /\ ~last.result.ok
        /\ last.result.err = TooShort(str_len(last.input.val), min)

\* C3 amended: a string shorter than MIN and not longer than MAX is rejected
\* with TooShort carrying its length and MIN, never with TooLong.
C3_TooShort ==
    (IsNew /\ str_len(last.input.val) < min /\ str_len(last.input.val) <= max) =>
        /\ ~last.result.ok
        /\ last.result.err = TooShort(str_len(last.input.val), min)
        /\ last.result.err.tag # "TooLong"

C3_Witness ==
    /\ IsNew /\ str_len(last.input.val) < min
    /\ str_len(last.input.val) > 0
    /\ ~last.result.ok /\ last.result.err.tag = "TooShort"

\* C4: decoding a string scalar succeeds exactly when constructing from the
\* same string does, with the same inner value, and never yields an instance
\* out of bounds.
C4_DecodeConstructEquivalence ==
    IsDecode =>
        LET c == new(min, max, last.input.val) IN
        /\ last.result.ok <=> c.ok
        /\ last.result.ok =>
            /\ last.result.value.inner = c.value.inner
            /\ InBounds(last.result.value.inner)

C4_Witness ==
    /\ IsDecode /\ last.result.ok
    /\ last.input.val # <<>>
    /\ min > 0

\* C5: decoding what serialize emitted for a valid instance succeeds and
\* gives an instance with the same inner value.
C5_RoundTrip ==
    last.op = "roundtrip" =>
        /\ last.result.ok
        /\ last.result.value.inner = encoded.value.inner

C5_Witness ==
    /\ last.op = "roundtrip" /\ last.result.ok
    /\ Len(last.result.value.inner) > 1

\* C6: every instance that exists is within its bounds and holds the value
\* it was created with.
C6_TypeInvariant ==
    field.some =>
        /\ InBounds(field.value.inner)
        /\ born.some /\ field.value.inner = born.value

\* an instance that exists has been read or encoded
C6_Witness ==
    /\ field.some /\ last.op \in {"deref", "serialize"}
    /\ field.value.inner # <<>>

\* C7: with MAX < MIN nothing is accepted, a string longer than MAX gets
\* TooLong and any other TooShort; with any bounds an attempt ends in exactly
\* one of success, TooLong and TooShort.
C7_Degenerate ==
    IsNew =>
        /\ max < min =>
            /\ ~last.result.ok
            /\ last.result.err.tag =
                IF str_len(last.input.val) > max THEN "TooLong" ELSE "TooShort"
        /\ Cardinality({o \in {"Ok", "TooLong", "TooShort"} :
                IF last.result.ok THEN o = "Ok"
                ELSE o = last.result.err.tag}) = 1

\* longer than MAX and shorter than MIN at once
C7_Witness ==
    /\ IsNew /\ max < min
    /\ str_len(last.input.val) > max /\ str_len(last.input.val) < min
    /\ ~last.result.ok

\* C8: serialize fails only when the serializer's serialize_str does, and
\* what it emits is one string scalar holding the inner value unchanged.
C8_Encode ==
    last.op = "serialize" =>
        /\ last.serializer = "infallible" => last.result.ok
        /\ last.result.ok => last.result.value = Str(field.value.inner)

C8_Witness ==
    /\ last.op = "serialize" /\ last.result.ok
    /\ last.result.value.val # <<>>

\* the text of a validation message, taken apart
Relation(msg) == CHOOSE i \in 1..Len(msg) : msg[i] \in {" longer than ", " shorter than "}

RECURSIVE ParseUsize(_)
ParseUsize(digits) ==
    IF digits = <<>> THEN 0
    ELSE 10 * ParseUsize(SubSeq(digits, 1, Len(digits) - 1))
         + (CHOOSE d \in 0..9 : DigitChars[d + 1] = digits[Len(digits)])

IsValidationText(msg) ==
    /\ Len(msg) >= 4
    /\ msg[1] = "Length of value "
    /\ \E i \in 3..(Len(msg) - 1) : msg[i] \in {" longer than ", " shorter than "}
    /\ \A i \in 1..Len(msg) :
        \/ i = 1
        \/ msg[i] \in {" longer than ", " shorter than "}
        \/ \E d \in 1..10 : DigitChars[d] = msg[i]

NamedLen(msg) == ParseUsize(SubSeq(msg, 2, Relation(msg) - 1))
NamedBound(msg) == ParseUsize(SubSeq(msg, Relation(msg) + 1, Len(msg)))

\* C9: when Construct rejects a string, decoding it fails with a framework
\* error whose message is the display text of Construct's error, and the text
\* names the string's length and the bound it violates.
C9_DiagnosticEquivalence ==
    (IsDecode /\ ~new(min, max, last.input.val).ok) =>
        LET c == new(min, max, last.input.val)
            msg == last.result.err.msg IN
        /\ ~last.result.ok
        /\ last.result.err.tag = "Custom"
        /\ msg = Display(c.err)
        /\ IsValidationText(msg)
        /\ NamedLen(msg) = str_len(last.input.val)
        /\ msg[Relation(msg)] = " longer than " =>
            (NamedBound(msg) = max /\ str_len(last.input.val) > max)
        /\ msg[Relation(msg)] = " shorter than " =>
            (NamedBound(msg) = min /\ str_len(last.input.val) < min)

C9_Witness ==
    /\ IsDecode /\ ~last.result.ok
    /\ last.result.err.tag = "Custom"
    /\ last.result.err.msg[Len(last.result.err.msg) - 1] = " shorter than "

\* the expecting text, taken apart: the number after "less than" is named as
\* the upper bound, the number after "greater than" as the lower bound
NumberAfter(msg, phrases) ==
    LET i == CHOOSE k \in 1..Len(msg) : msg[k] \in phrases
        rest == SubSeq(msg, i + 1, Len(msg))
        stop == IF \E k \in 1..Len(rest) : rest[k] \notin {DigitChars[d] : d \in 1..10}
                THEN (CHOOSE k \in 1..Len(rest) :
                        /\ rest[k] \notin {DigitChars[d] : d \in 1..10}
                        /\ \A j \in 1..(k - 1) : rest[j] \in {DigitChars[d] : d \in 1..10})
                ELSE Len(rest) + 1
    IN ParseUsize(SubSeq(rest, 1, stop - 1))

UpperPhrases == {"a string with length less than ", " and less than ",
                 " and at most ", "a string with length at most "}
LowerPhrases == {"a string with length greater than ", " and greater than ",
                 " and at least ", "a string with length at least "}

NamesUpper(msg) == NumberAfter(msg, UpperPhrases)
NamesLower(msg) == NumberAfter(msg, LowerPhrases)

IsTypeMismatch ==
    /\ last.op = "deserialize" /\ last.input.kind # "str"

\* What does hold of a scalar that is not a string: no instance, and the
\* framework's type-mismatch error rather than a validation error.
TypeMismatchOnly ==
    IsTypeMismatch =>
        /\ ~last.result.ok
        /\ last.result.err.tag = "InvalidType"
        /\ last.result.err.tag \notin {"TooLong", "TooShort", "Custom"}

\* C10: decoding something that is not a string scalar gives no instance and
\* the framework's type-mismatch error, never TooLong or TooShort, and the
\* error's expecting text names MIN as the lower bound and MAX as the upper.
C10_TypeMismatch ==
    IsTypeMismatch =>
        /\ ~last.result.ok
        /\ last.result.err.tag = "InvalidType"
        /\ last.result.err.tag \notin {"TooLong", "TooShort"}
        /\ NamesLower(last.result.err.exp) = min
        /\ NamesUpper(last.result.err.exp) = max

====
